---- MODULE Spec2Model ----
(***************************************************************************)
(* Model of the service-report form: the verification-code generator of    *)
(* src/verification.py and the form script of src/app.py.                  *)
(*                                                                         *)
(* Strings are sequences of Unicode code points (naturals).  Python's      *)
(* unbounded integers are little-endian sequences of four 16-bit limbs,    *)
(* which is wide enough for every intermediate value of fnv1a32            *)
(* (h < 2^32, so h + (h<<1) + ... + (h<<24) < 2^57).                       *)
(*                                                                         *)
(* Five specifications share the variables: SpecHash (fnv1a32, one loop    *)
(* iteration per step), SpecCode (six_digit_code_from_fields), SpecFiles   *)
(* (to_files_payload), SpecRows (the equipment row list) and SpecForm      *)
(* (the form and its submit handler).                                      *)
(***************************************************************************)
EXTENDS Integers, Sequences, FiniteSets

VARIABLES
    \* fnv1a32 run on a string of its own
    fnv_b,              \* b, the UTF-16LE bytes of input_str
    fnv_i,              \* loop index i (0-based, step 2)
    fnv_h,              \* h
    fnv_ret,            \* the returned value, None while the loop runs
    \* six_digit_code_from_fields called on arguments of its own
    gen_args,           \* id, ciudad, nit, nombreEmpresa
    gen_ret,            \* the returned code, None before the call
    \* to_files_payload called on arguments of its own
    tfp_args,           \* payload, imgs_antes, imgs_durante, imgs_despues
    tfp_ret,            \* the returned list, None before the call
    \* the form script of app.py
    qp,                 \* the query params of the session
    meta,               \* meta: id, ciudad, nit, nombreEmpresa, POSTURL
    verification_code,  \* verification_code
    equip_rows,         \* st.session_state.equip_rows
    widgets,            \* the equipment widgets' values, by row id
    descripcion,        \* the form's widget values ...
    alturas,            \* alturas_choice and detalles_alturas
    observaciones,
    actividades,
    imgs,               \* imgs_antes, imgs_durante, imgs_despues
    entered_code,
    errors,             \* the last script run on these values: errors,
    payload,            \* the payload it built (None if none),
    posts,              \* the requests.post calls it made, in order,
    message             \* and what it showed

hashVars == <<fnv_b, fnv_i, fnv_h, fnv_ret>>
genVars == <<gen_args, gen_ret>>
tfpVars == <<tfp_args, tfp_ret>>
sessionVars == <<qp, meta, verification_code>>
rowVars == <<equip_rows, widgets>>
fieldVars == <<descripcion, alturas, observaciones, actividades, imgs, entered_code>>
runVars == <<errors, payload, posts, message>>
formVars == <<sessionVars, rowVars, fieldVars, runVars>>
vars == <<hashVars, genVars, tfpVars, formVars>>

\* Python's None: a value no string equals
None == <<-1>>

(***************************************************************************)
(* Bounds of the model.                                                    *)
(***************************************************************************)
\* longest input_str given to fnv1a32 on its own
MaxHashLen == 3
\* longest metadata field given to six_digit_code_from_fields
MaxFieldLen == 1

(***************************************************************************)
(* Generic helpers.                                                        *)
(***************************************************************************)
RECURSIVE StringsUpTo(_, _)
\* all sequences over chars of length at most n
StringsUpTo(chars, n) ==
    IF n = 0 THEN {<<>>}
    ELSE LET shorter == StringsUpTo(chars, n - 1)
         IN  shorter \cup {Append(s, c) : s \in shorter, c \in chars}

RECURSIVE Pow2(_)
Pow2(k) == IF k = 0 THEN 1 ELSE 2 * Pow2(k - 1)

RECURSIVE Xor16(_, _, _)
\* bitwise exclusive or of the low n bits of a and b
Xor16(a, b, n) ==
    IF n = 0 THEN 0
    ELSE ((a + b) % 2) + 2 * Xor16(a \div 2, b \div 2, n - 1)

(***************************************************************************)
(* Python integers as four 16-bit limbs, least significant first.          *)
(***************************************************************************)
LimbBase == 65536
NumLimbs == 4

BigOf(lo, hi) == <<lo, hi, 0, 0>>

\* x << (16 * q)
ShlLimbs(x, q) == [i \in 1..NumLimbs |-> IF i > q THEN x[i - q] ELSE 0]

\* x << k for k < 16
ShlBits(x, k) ==
    [i \in 1..NumLimbs |->
        ((x[i] * Pow2(k)) % LimbBase)
        + (IF i > 1 THEN (x[i - 1] * Pow2(k)) \div LimbBase ELSE 0)]

\* Python's x << n
Shl(x, n) == ShlBits(ShlLimbs(x, n \div 16), n % 16)

RECURSIVE AddCarry(_, _, _, _)
AddCarry(x, y, i, carry) ==
    IF i > NumLimbs THEN <<>>
    ELSE LET s == x[i] + y[i] + carry
         IN  <<s % LimbBase>> \o AddCarry(x, y, i + 1, s \div LimbBase)

\* Python's x + y
Add(x, y) == AddCarry(x, y, 1, 0)

\* Python's x & 0xFFFFFFFF
And32(x) == <<x[1], x[2], 0, 0>>

\* Python's x ^ cu for a code unit cu in 0..65535
XorUnit(x, cu) == <<Xor16(x[1], cu, 16), x[2], x[3], x[4]>>

\* Python's x % 1_000_000 for x < 2^32, as a natural number
Mod1e6(x) ==
    LET hiPart == (((x[2] * 256) % 1000000) * 256) % 1000000
    IN  (hiPart + x[1]) % 1000000

(***************************************************************************)
(* verification.py: fnv1a32                                                *)
(***************************************************************************)
\* h = 0x811C9DC5
FnvOffsetBasis == BigOf(40389, 33052)

\* str.encode("utf-16le", errors="surrogatepass") of one code point
Utf16leOfChar(c) ==
    IF c < 65536
    THEN <<c % 256, c \div 256>>
    ELSE LET v  == c - 65536
             hs == 55296 + (v \div 1024)
             ls == 56320 + (v % 1024)
         IN  <<hs % 256, hs \div 256, ls % 256, ls \div 256>>

RECURSIVE Utf16le(_)
Utf16le(s) ==
    IF s = <<>> THEN <<>> ELSE Utf16leOfChar(Head(s)) \o Utf16le(Tail(s))

\* cu = b[i] | (b[i + 1] << 8), i 0-based
CodeUnitAt(b, i) == b[i + 1] + b[i + 2] * 256

FnvMixNoShl7(h) ==
    And32(Add(h, Add(Add(Add(Shl(h, 1), Shl(h, 4)), Shl(h, 8)), Shl(h, 24))))

\* h = (h + ((h << 1) + (h << 4) + (h << 7) + (h << 8) + (h << 24))) & 0xFFFFFFFF
FnvMix(h) ==
    And32(Add(h, Add(Add(Add(Add(Shl(h, 1), Shl(h, 4)), Shl(h, 7)), Shl(h, 8)),
                     Shl(h, 24))))

\* one iteration of the loop body: h ^= cu, then the mix
FnvLoopBody(h, cu) == FnvMix(XorUnit(h, cu))

RECURSIVE FnvLoop(_, _, _)
\* for i in range(0, len(b), 2): ...  (the test on Len(h) never ends the loop:
\* it has h computed before the next iteration starts, as Python does)
FnvLoop(b, i, h) ==
    IF i >= Len(b) \/ Len(h) = 0 THEN h
    ELSE FnvLoop(b, i + 2, FnvLoopBody(h, CodeUnitAt(b, i)))

fnv1a32(input_str) == And32(FnvLoop(Utf16le(input_str), 0, FnvOffsetBasis))

(***************************************************************************)
(* verification.py: normalize, six_digit_code_from_fields                  *)
(***************************************************************************)
IsSpace(c) == c \in {9, 10, 13, 32}
IsAsciiDigit(c) == c >= 48 /\ c <= 57
IsCombining(c) == c >= 768 /\ c <= 879

\* unicodedata.normalize("NFD", .) of one code point, for the characters of
\* the model's alphabets
NfdOfChar(c) ==
    CASE c = 225 -> <<97, 769>>
      [] c = 193 -> <<65, 769>>
      [] c = 241 -> <<110, 771>>
      [] OTHER   -> <<c>>

RECURSIVE Nfd(_)
Nfd(s) == IF s = <<>> THEN <<>> ELSE NfdOfChar(Head(s)) \o Nfd(Tail(s))

RECURSIVE StripCombining(_)
StripCombining(s) ==
    IF s = <<>> THEN <<>>
    ELSE IF IsCombining(Head(s)) THEN StripCombining(Tail(s))
    ELSE <<Head(s)>> \o StripCombining(Tail(s))

RECURSIVE LStrip(_)
LStrip(s) == IF s # <<>> /\ IsSpace(Head(s)) THEN LStrip(Tail(s)) ELSE s

RECURSIVE RStrip(_)
RStrip(s) ==
    IF s # <<>> /\ IsSpace(s[Len(s)]) THEN RStrip(SubSeq(s, 1, Len(s) - 1)) ELSE s

\* str.strip()
Strip(s) == RStrip(LStrip(s))

RECURSIVE SplitWords(_, _, _)
\* str.split(): the maximal runs of non-whitespace, in order
SplitWords(s, cur, words) ==
    IF s = <<>> THEN (IF cur = <<>> THEN words ELSE Append(words, cur))
    ELSE IF IsSpace(Head(s))
         THEN SplitWords(Tail(s), <<>>,
                         IF cur = <<>> THEN words ELSE Append(words, cur))
         ELSE SplitWords(Tail(s), Append(cur, Head(s)), words)

RECURSIVE Join(_, _)
\* sep.join(parts)
Join(sep, parts) ==
    IF parts = <<>> THEN <<>>
    ELSE IF Len(parts) = 1 THEN parts[1]
    ELSE parts[1] \o sep \o Join(sep, Tail(parts))

\* str.upper() of one code point of the model's alphabets
UpperOfChar(c) == IF c >= 97 /\ c <= 122 THEN c - 32 ELSE c

Upper(s) == [i \in 1..Len(s) |-> UpperOfChar(s[i])]

normalize(value) ==
    IF value = None THEN <<>>
    ELSE Upper(Join(<<32>>, SplitWords(Strip(StripCombining(Nfd(value))), <<>>, <<>>)))

RECURSIVE OnlyDigits(_)
\* re.sub(r"\D", "", s)
OnlyDigits(s) ==
    IF s = <<>> THEN <<>>
    ELSE IF IsAsciiDigit(Head(s)) THEN <<Head(s)>> \o OnlyDigits(Tail(s))
    ELSE OnlyDigits(Tail(s))

RECURSIVE DecimalDigits(_)
\* str(num) for num >= 0
DecimalDigits(num) ==
    IF num < 10 THEN <<48 + num>>
    ELSE Append(DecimalDigits(num \div 10), 48 + (num % 10))

RECURSIVE ZeroPad(_, _)
ZeroPad(s, width) == IF Len(s) >= width THEN s ELSE ZeroPad(<<48>> \o s, width)

FormatUnpadded(num) == DecimalDigits(num)

\* f"{num:06d}"
Format06d(num) == ZeroPad(DecimalDigits(num), 6)

\* sep = U+241F
Sep == <<9247>>

\* payload = sep.join([n_id, n_city, n_nit, n_company])
CodePayload(id, ciudad, nit, nombreEmpresa) ==
    Join(Sep, << normalize(id), normalize(ciudad),
                 OnlyDigits(IF nit = None THEN <<>> ELSE nit),
                 normalize(nombreEmpresa) >>)

\* num = h % 1_000_000
CodeNumber(id, ciudad, nit, nombreEmpresa) ==
    Mod1e6(fnv1a32(CodePayload(id, ciudad, nit, nombreEmpresa)))

six_digit_code_from_fields(id, ciudad, nit, nombreEmpresa) ==
    Format06d(CodeNumber(id, ciudad, nit, nombreEmpresa))

(***************************************************************************)
(* The parts of the state a specification does not use stay as they are    *)
(* here.                                                                   *)
(***************************************************************************)
IdleHash ==
    /\ fnv_b = <<>>
    /\ fnv_i = 0
    /\ fnv_h = FnvOffsetBasis
    /\ fnv_ret = None

IdleGen ==
    /\ gen_args = [id |-> None, ciudad |-> None, nit |-> None, nombreEmpresa |-> None]
    /\ gen_ret = None

IdleTfp ==
    /\ tfp_args = None
    /\ tfp_ret = [status |-> "none", files |-> <<>>]

IdleForm ==
    /\ qp = None
    /\ meta = None
    /\ verification_code = None
    /\ equip_rows = <<>>
    /\ widgets = <<>>
    /\ descripcion = <<>>
    /\ alturas = None
    /\ observaciones = <<>>
    /\ actividades = <<>>
    /\ imgs = None
    /\ entered_code = <<>>
    /\ errors = <<>>
    /\ payload = <<>>
    /\ posts = <<>>
    /\ message = "none"

(***************************************************************************)
(* fnv1a32 run one loop iteration at a time on a string of its own.        *)
(***************************************************************************)
\* 'A', a-acute, U+241F, U+FFFF, U+1F600 (a surrogate pair)
HashChars == {65, 225, 9247, 65535, 128512}

InitHash ==
    /\ \E s \in StringsUpTo(HashChars, MaxHashLen) : fnv_b = Utf16le(s)
    /\ fnv_i = 0
    /\ fnv_h = FnvOffsetBasis
    /\ fnv_ret = None
    /\ IdleGen
    /\ IdleTfp
    /\ IdleForm

FnvIterate ==
    /\ fnv_ret = None
    /\ fnv_i < Len(fnv_b)
    /\ fnv_h' = FnvLoopBody(fnv_h, CodeUnitAt(fnv_b, fnv_i))
    /\ fnv_i' = fnv_i + 2
    /\ UNCHANGED <<fnv_b, fnv_ret, genVars, tfpVars, formVars>>

FnvReturn ==
    /\ fnv_ret = None
    /\ fnv_i >= Len(fnv_b)
    /\ fnv_ret' = And32(fnv_h)
    /\ UNCHANGED <<fnv_b, fnv_i, fnv_h, genVars, tfpVars, formVars>>

NextHash == FnvIterate \/ FnvReturn

SpecHash == InitHash /\ [][NextHash]_vars

(***************************************************************************)
(* six_digit_code_from_fields on metadata of its own.                      *)
(***************************************************************************)
\* 'a', a-acute, space, '1', '.'
IdChars == {97, 225}
CiudadChars == {225, 32}
NitChars == {49, 46}
NombreChars == {97, 32}

FieldValues(chars) == StringsUpTo(chars, MaxFieldLen) \cup {None}

InitCode ==
    /\ gen_args \in [id : FieldValues(IdChars), ciudad : FieldValues(CiudadChars),
                     nit : FieldValues(NitChars),
                     nombreEmpresa : FieldValues(NombreChars)]
    /\ gen_ret = None
    /\ IdleHash
    /\ IdleTfp
    /\ IdleForm

GenerateCode ==
    /\ gen_ret = None
    /\ gen_ret' = six_digit_code_from_fields(gen_args.id, gen_args.ciudad,
                                             gen_args.nit, gen_args.nombreEmpresa)
    /\ UNCHANGED <<gen_args, hashVars, tfpVars, formVars>>

NextCode == GenerateCode

SpecCode == InitCode /\ [][NextCode]_vars

(***************************************************************************)
(* C5                                                                      *)
(***************************************************************************)
\* (x * 16777619) mod 2^32 for a 32-bit x given as <<lo, hi>>; 16777619 = 256 * 65536 + 403
MulPrime32(lo, hi) ==
    LET low == lo * 403
    IN  BigOf(low % LimbBase, ((low \div LimbBase) + hi * 403 + lo * 256) % LimbBase)

RECURSIVE RefFnv(_, _)
\* reference FNV-1a over the first n code units of the bytes b
RefFnv(b, n) ==
    IF n = 0 THEN BigOf(40389, 33052)
    ELSE LET prev == RefFnv(b, n - 1)
         IN  MulPrime32(Xor16(prev[1], CodeUnitAt(b, 2 * (n - 1)), 16), prev[2])

IsUint32(x) ==
    /\ x[1] \in 0..(LimbBase - 1)
    /\ x[2] \in 0..(LimbBase - 1)
    /\ x[3] = 0
    /\ x[4] = 0

\* C5: fnv1a32 starts from 0x811C9DC5 and after every processed code unit h is
\* a 32-bit value equal to the reference FNV-1a step ((h XOR unit) * 16777619)
\* mod 2^32 applied to the units so far; the returned value is that h.
C5_FnvMatchesReference ==
    /\ IsUint32(fnv_h)
    /\ fnv_h = RefFnv(fnv_b, fnv_i \div 2)
    /\ fnv_ret # None => fnv_ret = RefFnv(fnv_b, Len(fnv_b) \div 2)

C5_Witness ==
    /\ fnv_ret # None
    /\ Len(fnv_b) >= 6
    /\ fnv_ret[2] >= 32768

(***************************************************************************)
(* C6                                                                      *)
(***************************************************************************)
RECURSIVE ParseDecimal(_)
ParseDecimal(s) ==
    IF s = <<>> THEN 0
    ELSE 10 * ParseDecimal(SubSeq(s, 1, Len(s) - 1)) + (s[Len(s)] - 48)

\* C6: the generated code is exactly six ASCII decimal digits whose value is
\* the hash modulo 1000000, whatever the metadata (missing or empty fields
\* included).
C6_SixDigits ==
    gen_ret # None =>
        /\ Len(gen_ret) = 6
        /\ \A i \in 1..Len(gen_ret) : IsAsciiDigit(gen_ret[i])
        /\ ParseDecimal(gen_ret) =
               CodeNumber(gen_args.id, gen_args.ciudad, gen_args.nit,
                          gen_args.nombreEmpresa)

\* a code with a leading zero, generated from a missing id and an empty nit
C6_Witness ==
    /\ gen_ret # None
    /\ gen_args.id = None
    /\ gen_args.nit = <<>>
    /\ gen_ret[1] = 48

(***************************************************************************)
(* app.py: helpers                                                         *)
(***************************************************************************)
StartsWith(s, prefix) ==
    Len(s) >= Len(prefix) /\ SubSeq(s, 1, Len(prefix)) = prefix

\* "http://" and "https://"
HttpScheme == <<104, 116, 116, 112, 58, 47, 47>>
HttpsScheme == <<104, 116, 116, 112, 115, 58, 47, 47>>

is_http_url(url) ==
    IF url = None \/ url = <<>> THEN FALSE
    ELSE StartsWith(url, HttpScheme) \/ StartsWith(url, HttpsScheme)

IsHexDigit(c) ==
    \/ c >= 48 /\ c <= 57
    \/ c >= 65 /\ c <= 70
    \/ c >= 97 /\ c <= 102

HexValue(c) ==
    IF c <= 57 THEN c - 48 ELSE IF c <= 70 THEN c - 55 ELSE c - 87

RECURSIVE Unquote(_)
\* urllib.parse.unquote: every %XX becomes the character of that byte (a byte
\* that is not ASCII and stands alone decodes to U+FFFD), anything else stays
Unquote(s) ==
    IF s = <<>> THEN <<>>
    ELSE IF Head(s) = 37 /\ Len(s) >= 3 /\ IsHexDigit(s[2]) /\ IsHexDigit(s[3])
         THEN LET byte == 16 * HexValue(s[2]) + HexValue(s[3])
              IN  <<IF byte < 128 THEN byte ELSE 65533>>
                  \o Unquote(SubSeq(s, 4, Len(s)))
         ELSE <<Head(s)>> \o Unquote(Tail(s))

\* x or ""
OrEmpty(x) == IF x = None THEN <<>> ELSE x

PostUrlNoUpgrade(param) == Unquote(Strip(OrEmpty(param)))

\* raw_posturl: stripped, unquoted, http:// replaced by https://
PostUrlOf(param) ==
    LET raw == Unquote(Strip(OrEmpty(param)))
    IN  IF StartsWith(raw, HttpScheme)
        THEN HttpsScheme \o SubSeq(raw, Len(HttpScheme) + 1, Len(raw))
        ELSE raw

MetaOf(q) ==
    [id            |-> Strip(OrEmpty(q.id)),
     ciudad        |-> Strip(OrEmpty(q.ciudad)),
     nit           |-> Strip(OrEmpty(q.nit)),
     nombreEmpresa |-> Strip(OrEmpty(q.nombreEmpresa)),
     POSTURL       |-> PostUrlOf(q.POSTURL)]

\* datetime.now(timezone.utc).isoformat(): the value is not looked at
now_iso == "utc-now"

(***************************************************************************)
(* app.py: the equipment rows                                              *)
(***************************************************************************)
Range(seq) == {seq[i] : i \in 1..Len(seq)}

MaxOf(set) == CHOOSE m \in set : \A x \in set : x <= m

add_equipment_row_Count(rows) == Append(rows, Len(rows))

add_equipment_row(rows) ==
    Append(rows, IF rows # <<>> THEN MaxOf(Range(rows)) + 1 ELSE 0)

\* list.remove: the first occurrence goes
RemoveFirst(seq, x) ==
    LET k == CHOOSE i \in 1..Len(seq) : seq[i] = x /\ \A j \in 1..(i - 1) : seq[j] # x
    IN  SubSeq(seq, 1, k - 1) \o SubSeq(seq, k + 1, Len(seq))

remove_equipment_row(rows, row_id) ==
    IF Len(rows) > 1 /\ row_id \in Range(rows) THEN RemoveFirst(rows, row_id) ELSE rows

\* the widgets of a row as they are first rendered
BlankWidgets ==
    [nombre |-> <<>>, cantidad |-> 0, unidad |-> <<>>, marca |-> <<>>,
     modelo |-> <<>>, serial |-> <<>>, observaciones |-> <<>>]

\* the widgets of the rows: a row keeps its values, a new row starts blank,
\* a row that is no longer rendered loses them
WidgetsFor(rows, w) ==
    [r \in Range(rows) |-> IF r \in DOMAIN w THEN w[r] ELSE BlankWidgets]

\* items.append({...}) for one row
ItemOf(w) ==
    [nombre |-> Strip(w.nombre), cantidad |-> w.cantidad, unidad |-> Strip(w.unidad),
     marca |-> Strip(w.marca), modelo |-> Strip(w.modelo), serial |-> Strip(w.serial),
     observaciones |-> Strip(w.observaciones)]

render_equipment_rows(rows, w) == [i \in 1..Len(rows) |-> ItemOf(w[rows[i]])]

(***************************************************************************)
(* app.py: make_payload, to_files_payload                                  *)
(***************************************************************************)
make_payload(m, descr, equipos, trabajo_alturas, observ, activ) ==
    [metadata |-> [id |-> OrEmpty(m.id), ciudad |-> OrEmpty(m.ciudad),
                   nit |-> OrEmpty(m.nit), nombreEmpresa |-> OrEmpty(m.nombreEmpresa),
                   submittedAt |-> now_iso],
     descripcionServicio |-> descr,
     equiposMaterialesInstalados |-> equipos,
     trabajoEnAlturas |-> trabajo_alturas,
     observacionesGenerales |-> observ,
     actividadesPendientesONovedades |-> activ]

\* an attribute an object does not have, and a None attribute
Absent == "<absent>"

\* mimetypes.guess_type(fname)[0] for the file names of the model
GuessType(fname) ==
    CASE fname = "a.png" -> "image/png"
      [] fname = "b.jpg" -> "image/jpeg"
      [] OTHER -> Absent

\* the (fname, content, mt) of one image
ImagePart(field, f) ==
    LET fname == IF f.name = Absent THEN "image" ELSE f.name
        mt == IF f.type # Absent /\ f.type # "" THEN f.type
              ELSE IF GuessType(fname) # Absent THEN GuessType(fname)
              ELSE "application/octet-stream"
    IN  [field |-> field, filename |-> fname,
         content |-> [kind |-> "bytes", doc |-> <<>>, data |-> f.data],
         mimetype |-> mt]

\* f.getvalue() raises and f.read() raises too
Unreadable(f) == f.reader = "broken"

add_images(field, list) == [i \in 1..Len(list) |-> ImagePart(field, list[i])]

\* the part ("payload", ("payload.json", <the JSON bytes>, "application/json"))
PayloadPart(p) ==
    [field |-> "payload", filename |-> "payload.json",
     content |-> [kind |-> "json", doc |-> <<p>>, data |-> 0],
     mimetype |-> "application/json"]

to_files_payload_DuranteFirst(p, imgs_antes, imgs_durante, imgs_despues) ==
    [raised |-> \E f \in Range(imgs_antes \o imgs_durante \o imgs_despues) : Unreadable(f),
     files  |-> <<PayloadPart(p)>>
                \o add_images("imagenesDurante", imgs_durante)
                \o add_images("imagenesAntes", imgs_antes)
                \o add_images("imagenesDespues", imgs_despues)]

\* the list files, or raised when an image cannot be read (files is then not
\* returned)
to_files_payload(p, imgs_antes, imgs_durante, imgs_despues) ==
    [raised |-> \E f \in Range(imgs_antes \o imgs_durante \o imgs_despues) : Unreadable(f),
     files  |-> <<PayloadPart(p)>>
                \o add_images("imagenesAntes", imgs_antes)
                \o add_images("imagenesDurante", imgs_durante)
                \o add_images("imagenesDespues", imgs_despues)]

(***************************************************************************)
(* to_files_payload called on selections of its own.                       *)
(***************************************************************************)
\* longest selection in one category
MaxSel == 2

\* an upload with a declared type; one without a type, read by read(); one
\* without a name that cannot be read
FileObjects ==
    { [name |-> "a.png", type |-> "image/png", reader |-> "getvalue", data |-> 1],
      [name |-> "b.jpg", type |-> Absent, reader |-> "read", data |-> 2],
      [name |-> Absent, type |-> "", reader |-> "broken", data |-> 3] }

ExamplePayload ==
    make_payload([id |-> <<>>, ciudad |-> <<>>, nit |-> <<>>, nombreEmpresa |-> <<>>],
                 <<>>, <<>>, [requiere |-> FALSE, detalles |-> <<>>], <<>>, <<>>)

NoReturn == [status |-> "none", files |-> <<>>]

InitFiles ==
    /\ tfp_args \in [imgs_antes : StringsUpTo(FileObjects, MaxSel),
                     imgs_durante : StringsUpTo(FileObjects, MaxSel),
                     imgs_despues : StringsUpTo(FileObjects, MaxSel)]
    /\ tfp_ret = NoReturn
    /\ IdleHash
    /\ IdleGen
    /\ IdleForm

BuildFiles ==
    /\ tfp_ret.status = "none"
    /\ LET r == to_files_payload(ExamplePayload, tfp_args.imgs_antes,
                                 tfp_args.imgs_durante, tfp_args.imgs_despues)
       IN  tfp_ret' = IF r.raised THEN [status |-> "raised", files |-> <<>>]
                      ELSE [status |-> "returned", files |-> r.files]
    /\ UNCHANGED <<tfp_args, hashVars, genVars, formVars>>

NextFiles == BuildFiles

SpecFiles == InitFiles /\ [][NextFiles]_vars

(***************************************************************************)
(* C9                                                                      *)
(***************************************************************************)
\* the parts of one category, in order, match the selection one for one
PartsMatch(parts, field, list) ==
    /\ Len(parts) = Len(list)
    /\ \A i \in 1..Len(list) :
          /\ parts[i].field = field
          /\ parts[i].content.kind = "bytes"
          /\ parts[i].content.data = list[i].data

\* C9: the list to_files_payload returns is the JSON part named payload, then
\* one part per imagenesAntes image, then per imagenesDurante image, then per
\* imagenesDespues image, each category in the order of its selection, no
\* image dropped or duplicated.
C9_PartOrder ==
    tfp_ret.status = "returned" =>
        LET files == tfp_ret.files
            na == Len(tfp_args.imgs_antes)
            nd == Len(tfp_args.imgs_durante)
            np == Len(tfp_args.imgs_despues)
        IN  /\ Len(files) = 1 + na + nd + np
            /\ files[1].field = "payload"
            /\ files[1].content.kind = "json"
            /\ PartsMatch(SubSeq(files, 2, 1 + na), "imagenesAntes",
                          tfp_args.imgs_antes)
            /\ PartsMatch(SubSeq(files, 2 + na, 1 + na + nd), "imagenesDurante",
                          tfp_args.imgs_durante)
            /\ PartsMatch(SubSeq(files, 2 + na + nd, 1 + na + nd + np),
                          "imagenesDespues", tfp_args.imgs_despues)

\* a list built from two different images in one category and one in another
C9_Witness ==
    /\ tfp_ret.status = "returned"
    /\ Len(tfp_args.imgs_antes) = 2
    /\ tfp_args.imgs_antes[1].data = 2
    /\ tfp_args.imgs_antes[2].data = 1
    /\ Len(tfp_args.imgs_durante) = 1
    /\ tfp_args.imgs_despues = <<>>

(***************************************************************************)
(* app.py: the submit handler                                              *)
(***************************************************************************)
\* one entry of the list errors: the rule that failed, and for an equipment
\* item its number (1-based, 0 for the other rules)
Err(rule, idx) == [rule |-> rule, idx |-> idx]

\* st.number_input returns a float: str(0.0) is "0.0"
StrOfFloat(q) == DecimalDigits(q) \o <<46, 48>>

\* the condition of the equipment loop's if (cantidad is a number, never None)
ItemIncomplete(eq) ==
    \/ Strip(eq.nombre) = <<>>
    \/ eq.cantidad <= 0
    \/ Strip(eq.unidad) = <<>>

RECURSIVE EquipmentErrors(_, _)
\* for idx, eq in enumerate(equipos, start=1): ...
EquipmentErrors(equipos, idx) ==
    IF idx > Len(equipos) THEN <<>>
    ELSE (IF ItemIncomplete(equipos[idx]) THEN <<Err("material", idx)>> ELSE <<>>)
         \o EquipmentErrors(equipos, idx + 1)

When(cond, rule) == IF cond THEN <<Err(rule, 0)>> ELSE <<>>

\* the list errors as the handler fills it
ErrorsOf(f) ==
    When(Strip(f.descripcion) = <<>>, "descripcion")
    \o EquipmentErrors(f.equipos, 1)
    \o When(f.alturas_choice \notin {"Si", "No"}, "alturas")
    \o When(Strip(f.observaciones) = <<>>, "observaciones")
    \o When(Strip(f.actividades) = <<>>, "actividades")
    \o When(f.imgs_antes = <<>>, "antes")
    \o When(f.imgs_durante = <<>>, "durante")
    \o When(f.imgs_despues = <<>>, "despues")
    \o When(f.entered_digits # f.verification_code, "codigo")
    \o When(~is_http_url(f.post_url), "posturl")

ValidateFirstOnly(f) == SubSeq(ErrorsOf(f), 1, 1)

ValidateNoDespues(f) == SelectSeq(ErrorsOf(f), LAMBDA e : e.rule # "despues")

Validate(f) == ErrorsOf(f)

\* any(str(v).strip() for v in e.values())
AnyValue(e) ==
    \/ Strip(e.nombre) # <<>>
    \/ Strip(StrOfFloat(e.cantidad)) # <<>>
    \/ Strip(e.unidad) # <<>>
    \/ Strip(e.marca) # <<>>
    \/ Strip(e.modelo) # <<>>
    \/ Strip(e.serial) # <<>>
    \/ Strip(e.observaciones) # <<>>

EquiposSentNoFirst(equipos) == Tail(equipos)

\* equipos=[e for e in equipos if any(...)]
EquiposSent(equipos) == SelectSeq(equipos, AnyValue)

\* what requests.post and the lines after it can do: a response comes back
\* and success is shown, or the call raises and the error is shown
SendReportRetrying(post_url, files) ==
    { [posts   |-> <<[url |-> post_url, files |-> files, result |-> "response"]>>,
       message |-> "success"],
      [posts   |-> <<[url |-> post_url, files |-> files, result |-> "raised"],
                     [url |-> post_url, files |-> files, result |-> "response"]>>,
       message |-> "success"] }

SendReport(post_url, files) ==
    { [posts   |-> <<[url |-> post_url, files |-> files, result |-> "response"]>>,
       message |-> "success"],
      [posts   |-> <<[url |-> post_url, files |-> files, result |-> "raised"]>>,
       message |-> "send_error"] }

\* the values the script holds when the submit button was clicked
FormValues ==
    [descripcion       |-> descripcion,
     equipos           |-> render_equipment_rows(equip_rows, widgets),
     alturas_choice    |-> alturas.choice,
     detalles_alturas  |-> alturas.detalles,
     observaciones     |-> observaciones,
     actividades       |-> actividades,
     imgs_antes        |-> imgs.antes,
     imgs_durante      |-> imgs.durante,
     imgs_despues      |-> imgs.despues,
     entered_digits    |-> OnlyDigits(entered_code),
     verification_code |-> verification_code,
     post_url          |-> OrEmpty(meta.POSTURL)]

PayloadOf(f) ==
    make_payload(meta, Strip(f.descripcion), EquiposSent(f.equipos),
                 [requiere |-> (f.alturas_choice = "Si"),
                  detalles |-> Strip(f.detalles_alturas)],
                 Strip(f.observaciones), Strip(f.actividades))

(***************************************************************************)
(* The form: the session starts from query params, the user edits the      *)
(* widgets and clicks the form's buttons.  errors, payload, posts and      *)
(* message describe the script run that a click on "Enviar reporte"        *)
(* started on the values as they stand; any later change of the form       *)
(* clears them.                                                            *)
(***************************************************************************)
\* most rows the form is given
MaxFormRows == 2

\* "h", "%20", "%3A%2F%2F"
HostH == <<104>>
Pct20 == <<37, 50, 48>>
PctColonSlashSlash == <<37, 51, 65, 37, 50, 70, 37, 50, 70>>

\* the POSTURL query params of the model: absent, https, http in spaces and
\* percent-encoded, http after an encoded space
PostUrlParams ==
    { None,
      HttpsScheme \o HostH,
      <<32>> \o <<104, 116, 116, 112>> \o PctColonSlashSlash \o HostH \o <<32>>,
      Pct20 \o HttpScheme \o HostH }

\* " A1 ", "1.9"
IdParam == <<32, 65, 49, 32>>
NitParam == <<49, 46, 57>>

QueryParams ==
    {[id |-> None, ciudad |-> None, nit |-> None, nombreEmpresa |-> None,
      POSTURL |-> u] : u \in PostUrlParams}
    \cup {[id |-> IdParam, ciudad |-> <<225>>, nit |-> NitParam,
           nombreEmpresa |-> <<97, 32>>, POSTURL |-> HttpScheme \o HostH]}

\* "", " ", " x "
TextInputs == {<<>>, <<32>>, <<32, 120, 32>>}
\* "", " x "
ShortTextInputs == {<<>>, <<32, 120, 32>>}

AlturasInputs ==
    { [choice |-> "Seleccione", detalles |-> <<>>],
      [choice |-> "Si", detalles |-> <<32, 101>>],
      [choice |-> "No", detalles |-> <<>>] }

\* a row left blank; a complete row; a row with only a brand
RowInputs ==
    { BlankWidgets,
      [BlankWidgets EXCEPT !.nombre = <<32, 110>>, !.cantidad = 1, !.unidad = <<117, 32>>],
      [BlankWidgets EXCEPT !.marca = <<109>>] }

Upload == [name |-> "a.png", type |-> "image/png", reader |-> "getvalue", data |-> 1]

\* nothing selected, one file selected
ImgInputs == {<<>>, <<Upload>>}

\* nothing typed, the code shown typed
CodeInputs == {<<>>, verification_code}

NoRun ==
    /\ errors = <<>>
    /\ payload = <<>>
    /\ posts = <<>>
    /\ message = "none"

ClearRun ==
    /\ errors' = <<>>
    /\ payload' = <<>>
    /\ posts' = <<>>
    /\ message' = "none"

InitSession ==
    /\ meta = MetaOf(qp)
    /\ verification_code =
           six_digit_code_from_fields(meta.id, meta.ciudad, meta.nit, meta.nombreEmpresa)
    /\ equip_rows = <<0>>
    /\ widgets = WidgetsFor(equip_rows, <<>>)
    /\ descripcion = <<>>
    /\ alturas = [choice |-> "Seleccione", detalles |-> <<>>]
    /\ observaciones = <<>>
    /\ actividades = <<>>
    /\ imgs = [antes |-> <<>>, durante |-> <<>>, despues |-> <<>>]
    /\ entered_code = <<>>
    /\ NoRun
    /\ IdleHash
    /\ IdleGen
    /\ IdleTfp

InitForm ==
    /\ qp \in QueryParams
    /\ InitSession

EditDescripcion ==
    /\ \E v \in TextInputs : descripcion' = v
    /\ ClearRun
    /\ UNCHANGED <<alturas, observaciones, actividades, imgs, entered_code>>
    /\ UNCHANGED <<hashVars, genVars, tfpVars, sessionVars, rowVars>>

EditObservaciones ==
    /\ \E v \in ShortTextInputs : observaciones' = v
    /\ ClearRun
    /\ UNCHANGED <<descripcion, alturas, actividades, imgs, entered_code>>
    /\ UNCHANGED <<hashVars, genVars, tfpVars, sessionVars, rowVars>>

EditActividades ==
    /\ \E v \in ShortTextInputs : actividades' = v
    /\ ClearRun
    /\ UNCHANGED <<descripcion, alturas, observaciones, imgs, entered_code>>
    /\ UNCHANGED <<hashVars, genVars, tfpVars, sessionVars, rowVars>>

EditAlturas ==
    /\ \E v \in AlturasInputs : alturas' = v
    /\ ClearRun
    /\ UNCHANGED <<descripcion, observaciones, actividades, imgs, entered_code>>
    /\ UNCHANGED <<hashVars, genVars, tfpVars, sessionVars, rowVars>>

EditImages ==
    /\ \E slot \in {"antes", "durante", "despues"}, v \in ImgInputs :
          imgs' = [imgs EXCEPT ![slot] = v]
    /\ ClearRun
    /\ UNCHANGED <<descripcion, alturas, observaciones, actividades, entered_code>>
    /\ UNCHANGED <<hashVars, genVars, tfpVars, sessionVars, rowVars>>

EditCode ==
    /\ \E v \in CodeInputs : entered_code' = v
    /\ ClearRun
    /\ UNCHANGED <<descripcion, alturas, observaciones, actividades, imgs>>
    /\ UNCHANGED <<hashVars, genVars, tfpVars, sessionVars, rowVars>>

EditRow ==
    /\ \E r \in Range(equip_rows), v \in RowInputs :
          widgets' = [widgets EXCEPT ![r] = v]
    /\ ClearRun
    /\ UNCHANGED <<equip_rows, fieldVars>>
    /\ UNCHANGED <<hashVars, genVars, tfpVars, sessionVars>>

\* "Agregar material": add_equipment_row() and a rerun
AddClicked(maxRows, maxId) ==
    /\ Len(equip_rows) < maxRows
    /\ MaxOf(Range(equip_rows)) < maxId
    /\ equip_rows' = add_equipment_row(equip_rows)
    /\ widgets' = WidgetsFor(equip_rows', widgets)
    /\ ClearRun
    /\ UNCHANGED <<hashVars, genVars, tfpVars, sessionVars, fieldVars>>

\* remove_equipment_row(row_id) and a rerun
RemoveCall(row_id) ==
    /\ equip_rows' = remove_equipment_row(equip_rows, row_id)
    /\ widgets' = WidgetsFor(equip_rows', widgets)
    /\ ClearRun
    /\ UNCHANGED <<hashVars, genVars, tfpVars, sessionVars, fieldVars>>

AddRow == AddClicked(MaxFormRows, MaxFormRows - 1)

\* "Quitar este material" of a row that is rendered
RemoveRow == \E row_id \in Range(equip_rows) : RemoveCall(row_id)

\* "Enviar reporte", enabled only with a valid POSTURL: the whole handler
Submit ==
    /\ is_http_url(meta.POSTURL)
    /\ LET f == FormValues
           errs == Validate(f)
       IN  IF errs # <<>>
           THEN /\ errors' = errs
                /\ payload' = <<>>
                /\ posts' = <<>>
                /\ message' = "errors"
           ELSE LET p == PayloadOf(f)
                    r == to_files_payload(p, f.imgs_antes, f.imgs_durante,
                                          f.imgs_despues)
                IN  /\ errors' = <<>>
                    /\ payload' = <<p>>
                    /\ IF r.raised
                       THEN /\ posts' = <<>>
                            /\ message' = "send_error"
                       ELSE \E out \in SendReport(f.post_url, r.files) :
                               /\ posts' = out.posts
                               /\ message' = out.message
    /\ UNCHANGED <<hashVars, genVars, tfpVars, sessionVars, rowVars, fieldVars>>

NextForm ==
    \/ EditDescripcion
    \/ EditObservaciones
    \/ EditActividades
    \/ EditAlturas
    \/ EditImages
    \/ EditCode
    \/ EditRow
    \/ AddRow
    \/ RemoveRow
    \/ Submit

SpecForm == InitForm /\ [][NextForm]_vars

(***************************************************************************)
(* The row list alone: add_equipment_row and remove_equipment_row called   *)
(* in any order, remove with any row id.                                   *)
(***************************************************************************)
\* most rows, and the largest row id, the calls are followed to
MaxRows == 4
MaxRowId == 7

InitRows ==
    /\ qp = [id |-> None, ciudad |-> None, nit |-> None, nombreEmpresa |-> None,
             POSTURL |-> None]
    /\ InitSession

AddRowCall == AddClicked(MaxRows, MaxRowId)

RemoveRowCall == \E row_id \in 0..(MaxRowId + 1) : RemoveCall(row_id)

NextRows == AddRowCall \/ RemoveRowCall

SpecRows == InitRows /\ [][NextRows]_vars

(***************************************************************************)
(* The validation rules, stated on the form as the user sees it.           *)
(***************************************************************************)
NonBlank(text) == \E i \in 1..Len(text) : ~IsSpace(text[i])

RowComplete(r) ==
    /\ NonBlank(widgets[r].nombre)
    /\ widgets[r].cantidad > 0
    /\ NonBlank(widgets[r].unidad)

RowBlank(r) ==
    /\ ~NonBlank(widgets[r].nombre)
    /\ widgets[r].cantidad = 0
    /\ ~NonBlank(widgets[r].unidad)
    /\ ~NonBlank(widgets[r].marca)
    /\ ~NonBlank(widgets[r].modelo)
    /\ ~NonBlank(widgets[r].serial)
    /\ ~NonBlank(widgets[r].observaciones)

CodeMatches ==
    SelectSeq(entered_code, IsAsciiDigit) = verification_code

TargetIsHttp ==
    StartsWith(meta.POSTURL, HttpScheme) \/ StartsWith(meta.POSTURL, HttpsScheme)

\* every rule but the equipment rules
OtherRulesPass ==
    /\ NonBlank(descripcion)
    /\ NonBlank(observaciones)
    /\ NonBlank(actividades)
    /\ alturas.choice \in {"Si", "No"}
    /\ imgs.antes # <<>>
    /\ imgs.durante # <<>>
    /\ imgs.despues # <<>>
    /\ CodeMatches
    /\ TargetIsHttp

AllRulesPass ==
    /\ OtherRulesPass
    /\ \A r \in Range(equip_rows) : RowComplete(r)

Fails(cond, rule) == IF cond THEN {Err(rule, 0)} ELSE {}

\* the rules that fail, each as the entry it has in the error list
FailingRules ==
    Fails(~NonBlank(descripcion), "descripcion")
    \cup {Err("material", i) : i \in {n \in 1..Len(equip_rows) : ~RowComplete(equip_rows[n])}}
    \cup Fails(alturas.choice \notin {"Si", "No"}, "alturas")
    \cup Fails(~NonBlank(observaciones), "observaciones")
    \cup Fails(~NonBlank(actividades), "actividades")
    \cup Fails(imgs.antes = <<>>, "antes")
    \cup Fails(imgs.durante = <<>>, "durante")
    \cup Fails(imgs.despues = <<>>, "despues")
    \cup Fails(~CodeMatches, "codigo")
    \cup Fails(~TargetIsHttp, "posturl")

(***************************************************************************)
(* C1                                                                      *)
(***************************************************************************)
\* C1: a submit builds a payload and attempts a POST only if every validation
\* rule passes; when a rule fails no payload is built and no request is sent.
C1_PostOnlyIfValid ==
    (payload # <<>> \/ posts # <<>>) => AllRulesPass

\* a POST was attempted for a form with two equipment rows
C1_Witness ==
    /\ posts # <<>>
    /\ Len(equip_rows) = 2

(***************************************************************************)
(* C2                                                                      *)
(***************************************************************************)
\* C2: at submit time a row left completely blank produces no validation
\* error, and a form whose only row is blank and whose other rules all pass
\* is submitted.
C2_BlankRowNotFlagged ==
    message # "none" =>
        /\ \A i \in 1..Len(equip_rows) :
              RowBlank(equip_rows[i]) => Err("material", i) \notin Range(errors)
        /\ (OtherRulesPass /\ \A r \in Range(equip_rows) : RowBlank(r))
              => posts # <<>>

(***************************************************************************)
(* C3                                                                      *)
(***************************************************************************)
HasNonBlankField(e) ==
    \/ e.nombre # <<>>
    \/ e.cantidad # 0
    \/ e.unidad # <<>>
    \/ e.marca # <<>>
    \/ e.modelo # <<>>
    \/ e.serial # <<>>
    \/ e.observaciones # <<>>

C4_ErrorsAccumulate ==
    message # "none" =>
        /\ Range(errors) = FailingRules
        /\ Len(errors) = Cardinality(FailingRules)

\* a rejected submit with two failing equipment items and five more failures
C4_Witness ==
    /\ message = "errors"
    /\ Err("material", 1) \in Range(errors)
    /\ Err("material", 2) \in Range(errors)
    /\ Len(errors) >= 7

(***************************************************************************)
(* C7                                                                      *)
(***************************************************************************)
\* C7: a submit makes at most one POST attempt; when the attempt raises, what
\* is shown is the send error and never success; a POST is only ever made by
\* a submit.
C7_OneAttemptNoRetry ==
    /\ Len(posts) <= 1
    /\ \A i \in 1..Len(posts) : posts[i].result = "raised" => message = "send_error"
    /\ posts # <<>> => message \in {"success", "send_error"}

\* a submit whose POST raised
C7_Witness ==
    /\ Len(posts) = 1
    /\ posts[1].result = "raised"
    /\ message = "send_error"

(***************************************************************************)
(* C8                                                                      *)
(***************************************************************************)
\* C8: the stored target address never starts with "http://", and every POST
\* goes to an address that starts with "https://".
C8_HttpsOnly ==
    /\ ~StartsWith(meta.POSTURL, HttpScheme)
    /\ \A i \in 1..Len(posts) : StartsWith(posts[i].url, HttpsScheme)

\* a POST was made in a session whose POSTURL param decodes to an http:// URL
C8_Witness ==
    /\ posts # <<>>
    /\ qp.POSTURL # None
    /\ StartsWith(Unquote(Strip(qp.POSTURL)), HttpScheme)

(***************************************************************************)
(* C10                                                                     *)
(***************************************************************************)
\* C10: after any sequence of add_equipment_row and remove_equipment_row calls
\* from [0], with any row id given to remove, the row list is non-empty and
\* its ids are pairwise distinct (they increase along the list, add having
\* appended max+1).
C10_RowsNonEmptyDistinct ==
    /\ Len(equip_rows) >= 1
    /\ \A i, j \in 1..Len(equip_rows) : i # j => equip_rows[i] # equip_rows[j]
    /\ \A i, j \in 1..Len(equip_rows) : i < j => equip_rows[i] < equip_rows[j]

\* three rows after row 0 was removed
C10_Witness ==
    /\ Len(equip_rows) = 3
    /\ equip_rows[1] > 0
====
